---- MODULE Spec2Model ----
(***************************************************************************)
(* A model of the Divi RPC gateway: the RPC transport client               *)
(* (src/rpc_client.py), the response normaliser, the HTTP handlers and the *)
(* single-slot peer cache (src/divi_api_server.py).                        *)
(*                                                                         *)
(* Three specifications share the module:                                  *)
(*   Spec        the /getpeers handler, its cache and the event loop;      *)
(*   SpecRpc     the endpoints that answer one request with one upstream   *)
(*               call (rpc_call_wrapper, get_lottery, ping);               *)
(*   SpecLive    Spec with what the event loop is sure to do.              *)
(***************************************************************************)
EXTENDS Integers, Sequences, FiniteSets, TLC

VARIABLES
    http,      \* SpecRpc: the last request/response exchange of a non-cached endpoint
    clock,     \* wall clock, datetime.now(timezone.utc), in hours
    cache,     \* the module-level cache dict: [data, timestamp]
    req,       \* the /getpeers requests: one record per request
    running    \* the request whose coroutine holds the event loop (0: none)

vars == <<http, clock, cache, req, running>>

----------------------------------------------------------------------------
(* JSON values (what response.json() returns and what a handler returns).  *)
(* Every value carries its Python type in field t; the second field is     *)
(* named after the type so that values of different types never compare    *)
(* their contents.                                                         *)

JNull == [t |-> "null"]
JBool(b) == [t |-> "bool", b |-> b]
JInt(n) == [t |-> "int", n |-> n]
\* a str whose text is kept whole (messages)
JStr(s) == [t |-> "str", s |-> s]
\* a str kept as its sequence of characters (hashes, addresses, versions)
JChars(cs) == [t |-> "str", chars |-> cs]
\* the str that datetime.isoformat() makes of an instant
JIso(ts) == [t |-> "str", iso |-> ts]
JList(xs) == [t |-> "list", items |-> xs]
\* a datetime (not JSON: the cache keeps one)
DateTime(ts) == [t |-> "datetime", at |-> ts]
\* a dict with string keys, as a record
JObj(r) == [t |-> "dict", d |-> r]
\* the empty dict {}
JEmptyObj == [t |-> "dict", empty |-> TRUE]

\* Python truthiness, bool(v)
Truthy(v) ==
    CASE v.t = "null" -> FALSE
      [] v.t = "bool" -> v.b
      [] v.t = "int" -> v.n # 0
      [] v.t = "list" -> v.items # << >>
      [] v.t = "dict" -> v # JEmptyObj
      [] v.t = "datetime" -> TRUE
      [] v.t = "str" ->
            IF "s" \in DOMAIN v THEN v.s # ""
            ELSE IF "chars" \in DOMAIN v THEN v.chars # << >>
            ELSE TRUE

\* isinstance(v, dict) and key in v
HasKey(v, key) == v.t = "dict" /\ v # JEmptyObj /\ key \in DOMAIN v.d

----------------------------------------------------------------------------
(* Exceptions: a call either returns a value or raises an exception of a   *)
(* class.                                                                  *)

Return(v) == [raised |-> FALSE, value |-> v]
Raise(cls, msg) == [raised |-> TRUE, cls |-> cls, msg |-> msg]
HTTPException(status_code, detail) ==
    [raised |-> TRUE, cls |-> "HTTPException", status_code |-> status_code,
     detail |-> detail]

\* the classes of requests.exceptions that derive from RequestException
RequestExceptions == {"RequestException", "ConnectionError", "Timeout", "HTTPError",
                      "JSONDecodeError"}

\* issubclass(cls, base) for the classes the handlers name
IsSubclass(cls, base) ==
    \/ cls = base
    \/ base = "Exception"
    \/ base = "RequestException" /\ cls \in RequestExceptions

----------------------------------------------------------------------------
(* The upstream node, seen through requests.post / raise_for_status /      *)
(* response.json(): it answers with a JSON body, or the attempt fails.     *)

Ok(payload) == [kind |-> "ok", payload |-> payload]
Fails(kind) == [kind |-> kind]

\* A response body that does not parse raises requests' JSONDecodeError (a
\* RequestException) in current releases of requests and a plain ValueError in
\* older ones: both are outcomes.
FailureKinds == {"ConnectionError", "Timeout", "HTTPError", "JSONDecodeError",
                 "ValueError"}

\* str(e) of the exception requests raises
RequestErrorText(kind) ==
    CASE kind = "ConnectionError" -> "Error occurred: connection refused"
      [] kind = "Timeout" -> "Error occurred: timed out"
      [] kind = "HTTPError" -> "Error occurred: 401 Client Error"
      [] kind = "JSONDecodeError" -> "Error occurred: Expecting value"
      [] OTHER -> "Expecting value"

\* RpcClient.call: the parsed body, or Exception("Error occurred: ...") for every
\* RequestException; anything else propagates as it is.
RpcClient_call(outcome) ==
    IF outcome.kind = "ok" THEN Return(outcome.payload)
    ELSE IF IsSubclass(outcome.kind, "RequestException")
         THEN Raise("Exception", RequestErrorText(outcome.kind))
         ELSE Raise(outcome.kind, RequestErrorText(outcome.kind))

\* one upstream request as the node sees it
RpcRequest(method, params) == [method |-> method, params |-> params]

----------------------------------------------------------------------------
(* The response normaliser.                                                *)

MutUnwrapAll(result) ==
    IF HasKey(result, "result") /\ HasKey(result.d.result, "result")
    THEN result.d.result.d.result
    ELSE IF HasKey(result, "result") THEN result.d.result ELSE result

\* lines 83-85 of handle_rpc_response: the value that becomes "result"
Unwrap(result) ==
    IF HasKey(result, "result") THEN result.d.result ELSE result

handle_rpc_response(result, now) ==
    JObj([result |-> Unwrap(result), error |-> JNull, timestamp_utc |-> JIso(now)])

handle_rpc_error(error_msg, now) ==
    JObj([result |-> JNull, error |-> JObj([message |-> JStr(error_msg)]),
          timestamp |-> JIso(now)])

Detail503 == "Service Unavailable. Try again later."
Detail504 == "Request Timeout. Service took too long to respond. Try again later."
\* line 118: the f-string holds str(e) of the HTTPError
Detail401(text) ==
    "Oops! There was an HTTP error: " \o text \o ". Check your request and try again."
Detail500 ==
    "Oops! Looks like something broke. Either the universe just exploded, or you used the wrong API function. Try again, newb!"

\* rpc_call_wrapper, given what callable(*args) did
rpc_call_wrapper(res, now) ==
    IF ~res.raised THEN Return(handle_rpc_response(res.value, now))
    ELSE IF IsSubclass(res.cls, "ConnectionError") THEN HTTPException(503, Detail503)
    ELSE IF IsSubclass(res.cls, "Timeout") THEN HTTPException(504, Detail504)
    ELSE IF IsSubclass(res.cls, "HTTPError") THEN HTTPException(401, Detail401(res.msg))
    ELSE HTTPException(500, Detail500)

\* custom_http_exception_handler: every detail raised here is a str
custom_http_exception_handler(exc) ==
    [status |-> exc.status_code,
     body |-> JObj([error |-> JInt(exc.status_code), message |-> JStr(exc.detail)])]

generic_500_handler ==
    [status |-> 500,
     body |-> JObj([error |-> JInt(500),
                    message |-> JStr(
        "Oops! Looks like something went wrong. Either the universe just exploded, or you used the wrong API function. Try again, newb!")])]

\* What FastAPI sends for what a handler did: the returned value with status 200,
\* or the registered exception handler's response.
Respond(res) ==
    IF ~res.raised THEN [status |-> 200, body |-> res.value]
    ELSE IF res.cls = "HTTPException" THEN custom_http_exception_handler(res)
    ELSE generic_500_handler

----------------------------------------------------------------------------
(* Strings that the handlers inspect are sequences of characters.  Two     *)
(* characters outside ASCII stand for the classes str.isdigit() accepts    *)
(* beyond 0-9: ARABIC_THREE (U+0663, a decimal digit, int() reads it as 3) *)
(* and SUPERSCRIPT_TWO (U+00B2, a digit that int() refuses).               *)

AsciiDigits == <<"0", "1", "2", "3", "4", "5", "6", "7", "8", "9">>
HexChars == {"0", "1", "2", "3", "4", "5", "6", "7", "8", "9",
             "a", "b", "c", "d", "e", "f", "A", "B", "C", "D", "E", "F"}

Range(f) == {f[i] : i \in DOMAIN f}

\* unicodedata.decimal(c), or -1
DecimalValue(c) ==
    IF c \in Range(AsciiDigits) THEN (CHOOSE i \in 1..10 : AsciiDigits[i] = c) - 1
    ELSE IF c = "ARABIC_THREE" THEN 3
    ELSE -1

\* c.isdigit() for one character
CharIsDigit(c) == DecimalValue(c) >= 0 \/ c = "SUPERSCRIPT_TWO"

\* str.isdigit(): at least one character and all of them digits
isdigit(s) == Len(s) > 0 /\ \A i \in 1..Len(s) : CharIsDigit(s[i])

\* int(s) for a string of digit characters: the number, or ValueError
RECURSIVE DecimalOf(_)
DecimalOf(s) ==
    IF s = << >> THEN 0
    ELSE 10 * DecimalOf(SubSeq(s, 1, Len(s) - 1)) + DecimalValue(s[Len(s)])

\* sys.get_int_max_str_digits(): the longest digit string int() converts
IntMaxStrDigits == 4300

int(s) ==
    IF ~(Len(s) > 0 /\ \A i \in 1..Len(s) : DecimalValue(s[i]) >= 0)
    THEN Raise("ValueError", "invalid literal for int() with base 10")
    ELSE IF Len(s) > IntMaxStrDigits
    THEN Raise("ValueError", "Exceeds the limit (4300 digits) for integer string conversion")
    ELSE Return(DecimalOf(s))

HashLen == 64

\* line 175 of get_block: len(hash) == 64 and all(c in '0123456789abcdefABCDEF' ...)
ValidHash(hash) == Len(hash) = HashLen /\ \A i \in 1..Len(hash) : hash[i] \in HexChars

----------------------------------------------------------------------------
(* The handlers that answer with one upstream call.  Each gives what the   *)
(* handler did (res: a returned body or a raised exception) and the        *)
(* upstream requests it issued (calls).                                    *)

Did(res, calls) == [res |-> res, calls |-> calls]

\* ping: rpc.ping() makes no upstream call
ping == Did(Return(JObj([message |-> JStr("pong")])), << >>)

\* The endpoints whose handler is "return rpc_call_wrapper(rpc.<method>, <args>)",
\* with the JSON-RPC request RpcClient builds for each.
PlainEndpoints == {"blockcount", "info", "connectioncount", "getrawmempool",
                   "getmempoolinfo", "tx", "getaddressbalance", "getaddressdeltas",
                   "getaddresstxids", "getaddressutxos", "decode-raw-tx"}

AddressEndpoints == {"getaddressbalance", "getaddressdeltas", "getaddresstxids",
                     "getaddressutxos"}

\* the path and query parameters of a plain endpoint
PlainArgs(ep) ==
    IF ep \in AddressEndpoints
    THEN {<<JStr("DAddr1"), JBool(v)>> : v \in BOOLEAN}
    ELSE IF ep = "tx" THEN {<<JStr("txid1")>>}
    ELSE IF ep = "decode-raw-tx" THEN {<<JStr("0100")>>}
    ELSE {<< >>}

PlainRequest(ep, args) ==
    CASE ep = "blockcount" -> RpcRequest("getblockcount", << >>)
      [] ep = "info" -> RpcRequest("getinfo", << >>)
      [] ep = "connectioncount" -> RpcRequest("getconnectioncount", << >>)
      [] ep = "getrawmempool" -> RpcRequest("getrawmempool", << >>)
      [] ep = "getmempoolinfo" -> RpcRequest("getmempoolinfo", << >>)
      [] ep = "tx" -> RpcRequest("getrawtransaction", <<args[1], JInt(1)>>)
      [] ep = "decode-raw-tx" -> RpcRequest("decoderawtransaction", <<args[1]>>)
      [] ep \in AddressEndpoints ->
            RpcRequest(ep, <<JObj([addresses |-> JList(<<args[1]>>)]), args[2]>>)

plain_endpoint(ep, args, outcome, now) ==
    Did(rpc_call_wrapper(RpcClient_call(outcome), now), <<PlainRequest(ep, args)>>)

get_block_hash(block, outcome, now) ==
    IF ~isdigit(block)
    THEN Did(HTTPException(400, "Invalid block number format. Block number should be a non-negative integer."), << >>)
    ELSE LET block_num == int(block) IN
         IF block_num.raised THEN Did(block_num, << >>)
         ELSE LET res == rpc_call_wrapper(RpcClient_call(outcome), now) IN
              Did(IF res.raised /\ IsSubclass(res.cls, "Exception")
                  THEN HTTPException(404, "Block not found. The provided block number does not exist.")
                  ELSE res,
                  <<RpcRequest("getblockhash", <<JInt(block_num.value)>>)>>)

get_block(hash, outcome, now) ==
    IF ~ValidHash(hash)
    THEN Did(HTTPException(400, "Invalid block hash format. Expected a 64-character hexadecimal string."), << >>)
    ELSE LET res == rpc_call_wrapper(RpcClient_call(outcome), now) IN
         Did(IF res.raised /\ IsSubclass(res.cls, "Exception")
             THEN HTTPException(404, "Block not found. The provided block hash does not exist.")
             ELSE res,
             <<RpcRequest("getblock", <<JChars(hash), JBool(TRUE)>>)>>)

send_raw_transaction(hexstring, outcome, now) ==
    IF ~Truthy(hexstring)
    THEN Did(HTTPException(400, "Invalid hexstring provided"), << >>)
    ELSE Did(rpc_call_wrapper(RpcClient_call(outcome), now),
             <<RpcRequest("sendrawtransaction", <<hexstring, JBool(FALSE)>>)>>)

\* get_lottery: blockheight is None or an int; RpcClient.get_lottery_block_winners
\* sends [block_height] only for a truthy block_height
get_lottery(blockheight, outcome, now) ==
    LET res == RpcClient_call(outcome) IN
    Did(Return(IF res.raised THEN handle_rpc_error(res.msg, now)
               ELSE handle_rpc_response(res.value, now)),
        <<RpcRequest("getlotteryblockwinners",
                     IF Truthy(blockheight) THEN <<blockheight>> ELSE << >>)>>)

----------------------------------------------------------------------------
(* The peer filter of get_peers (lines 235-257) and split_ip_port.         *)

\* The printable ASCII characters in code point order, from space (32) to tilde
\* (126); QUOTE, BACKSLASH and BACKTICK name the characters 34, 92 and 96.
Ascii == <<" ", "!", "QUOTE", "#", "$", "%", "&", "'", "(", ")", "*", "+", ",", "-", ".", "/",
           "0", "1", "2", "3", "4", "5", "6", "7", "8", "9", ":", ";", "<", "=", ">", "?",
           "@", "A", "B", "C", "D", "E", "F", "G", "H", "I", "J", "K", "L", "M", "N", "O",
           "P", "Q", "R", "S", "T", "U", "V", "W", "X", "Y", "Z", "[", "BACKSLASH", "]", "^", "_",
           "BACKTICK", "a", "b", "c", "d", "e", "f", "g", "h", "i", "j", "k", "l", "m", "n", "o",
           "p", "q", "r", "s", "t", "u", "v", "w", "x", "y", "z", "{", "|", "}", "~">>

\* ord(c)
Ord(c) == 31 + (CHOOSE i \in 1..Len(Ascii) : Ascii[i] = c)

Min(S) == CHOOSE x \in S : \A y \in S : x <= y

\* a < b for two str: by code point at the first difference, else by length
StrLess(a, b) ==
    LET n == IF Len(a) < Len(b) THEN Len(a) ELSE Len(b)
        diff == {i \in 1..n : a[i] # b[i]}
    IN IF diff = {} THEN Len(a) < Len(b)
       ELSE Ord(a[Min(diff)]) < Ord(b[Min(diff)])

\* a >= b for two str
StrGE(a, b) == ~StrLess(a, b)

\* s.startswith(prefix)
StartsWith(s, prefix) == Len(s) >= Len(prefix) /\ SubSeq(s, 1, Len(prefix)) = prefix

\* s.split(sep): the pieces of s between the occurrences of sep, left to right
RECURSIVE Split(_, _)
Split(s, sep) ==
    LET at == {i \in 1..(Len(s) - Len(sep) + 1) : SubSeq(s, i, i + Len(sep) - 1) = sep}
    IN IF at = {} THEN <<s>>
       ELSE <<SubSeq(s, 1, Min(at) - 1)>>
            \o Split(SubSeq(s, Min(at) + Len(sep), Len(s)), sep)

\* split_ip_port: <<ip, port>>, or the ValueError of "ip, port = address.split(':')"
split_ip_port(address) ==
    IF StartsWith(address, <<"[">>)
    THEN LET ip == Split(Tail(address), <<"]", ":">>)[1]
             parts == Split(address, <<"]", ":">>)
         IN Return(<<ip, parts[Len(parts)]>>)
    ELSE LET parts == Split(address, <<":">>)
         IN IF Len(parts) = 2 THEN Return(<<parts[1], parts[2]>>)
            ELSE Raise("ValueError", "wrong number of values to unpack")

DiviCore == <<"D", "I", "V", "I", " ", "C", "o", "r", "e", ":", " ">>
\* "DIVI Core: 3.0.0.0"
MinSubver == DiviCore \o <<"3", ".", "0", ".", "0", ".", "0">>
HeightWindow == 1000

\* line 250, for an int block_count
MeetsCriteria(subver, starting_height, block_count) ==
    StrGE(subver, MinSubver) /\ starting_height >= block_count - HeightWindow

\* lines 251-253: filtered_peers is a dict, kept as its items in insertion order
DictAppend(filtered_peers, subver, entry) ==
    IF \E k \in 1..Len(filtered_peers) : filtered_peers[k][1] = subver
    THEN [k \in 1..Len(filtered_peers) |->
            IF filtered_peers[k][1] = subver
            THEN <<subver, Append(filtered_peers[k][2], entry)>>
            ELSE filtered_peers[k]]
    ELSE Append(filtered_peers, <<subver, <<entry>> >>)

\* line 243
SkipsIpv6(include_ipv6, addr) == ~include_ipv6 /\ StartsWith(addr, <<"[">>)

\* the values "- 1000" is defined on: int, and bool, which is an int in Python
IsNumber(v) == v.t \in {"int", "bool"}
NumberOf(v) == IF v.t = "bool" THEN (IF v.b THEN 1 ELSE 0) ELSE v.n

\* The loop of lines 237-253 from peer i on: the dict it leaves, or the exception
\* that ends it.  block_count is what rpc.get_block_count() returned, so the
\* subtraction of line 250 raises TypeError unless it is a number; the subtraction
\* is reached only behind "subver >= ..." (and is short-circuited).
RECURSIVE FilterLoop(_, _, _, _, _)
FilterLoop(peer_info, i, block_count, include_ipv6, filtered_peers) ==
    IF i > Len(peer_info) THEN Return(filtered_peers)
    ELSE LET peer == peer_info[i] IN
         IF SkipsIpv6(include_ipv6, peer.addr)
         THEN FilterLoop(peer_info, i + 1, block_count, include_ipv6, filtered_peers)
         ELSE LET sp == split_ip_port(peer.addr) IN
              IF sp.raised THEN sp
              ELSE IF StrGE(peer.subver, MinSubver) /\ ~IsNumber(block_count)
              THEN Raise("TypeError", "unsupported operand type(s) for -")
              ELSE IF IsNumber(block_count)
                      /\ MeetsCriteria(peer.subver, peer.startingheight,
                                       NumberOf(block_count))
              THEN FilterLoop(peer_info, i + 1, block_count, include_ipv6,
                              DictAppend(filtered_peers, peer.subver,
                                         [ip |-> sp.value[1], port |-> sp.value[2]]))
              ELSE FilterLoop(peer_info, i + 1, block_count, include_ipv6, filtered_peers)

\* line 257: [{"core": ver, "peers": peers} for ver, peers in filtered_peers.items()]
GroupList(filtered_peers) ==
    JList([k \in 1..Len(filtered_peers) |->
            JObj([core |-> JChars(filtered_peers[k][1]),
                  peers |-> JList([j \in 1..Len(filtered_peers[k][2]) |->
                        JObj([ip |-> JChars(filtered_peers[k][2][j].ip),
                              port |-> JChars(filtered_peers[k][2][j].port)])])])])

----------------------------------------------------------------------------
(* Inputs.                                                                 *)

\* bodies the upstream node may answer with
Payloads ==
    {JNull, JInt(7), JStr("00ab"), JList(<< >>), JList(<<JStr("tx1")>>), JEmptyObj,
     JObj([blocks |-> JInt(7)]),
     JObj([result |-> JInt(7), error |-> JNull, id |-> JInt(1)]),
     JObj([result |-> JNull,
           error |-> JObj([code |-> JInt(-5), message |-> JStr("Block not found")]),
           id |-> JInt(1)]),
     JObj([result |-> JObj([result |-> JInt(7), confirmations |-> JInt(2)]),
           error |-> JNull, id |-> JInt(1)])}

Outcomes == {Ok(p) : p \in Payloads} \cup {Fails(k) : k \in FailureKinds}

Hash64 == [i \in 1..HashLen |-> IF i % 2 = 0 THEN "a" ELSE "0"]
Hash64Mixed == [i \in 1..HashLen |-> IF i % 3 = 0 THEN "F" ELSE IF i % 3 = 1 THEN "9" ELSE "c"]

\* {hash} path parameters
Hashes ==
    {Hash64, Hash64Mixed,
     SubSeq(Hash64, 1, HashLen - 1), Hash64 \o <<"0">>,
     [Hash64 EXCEPT ![1] = "g"], [Hash64 EXCEPT ![HashLen] = "z"],
     [Hash64 EXCEPT ![7] = " "], [i \in 1..HashLen |-> "x"],
     <<"z", "z">>, <<"a">>}

\* {block} path parameters
Blocks ==
    {<<"0">>, <<"7">>, <<"1", "2">>, <<"0", "0", "7">>, <<"ARABIC_THREE">>,
     <<"1", "SUPERSCRIPT_TWO">>,
     <<"a", "b", "c">>, <<"-", "1">>, <<"1", ".", "5">>, <<"1", "2", "a">>, <<" ", "1">>,
     <<"+", "1">>, <<"0", "x", "1", "0">>,
     [i \in 1..(IntMaxStrDigits + 1) |-> "1"]}

Ip1 == <<"1", ".", "2", ".", "3", ".", "4">>
Ip2 == <<"5", ".", "6", ".", "7", ".", "8">>
Ip6 == <<":", ":", "1">>
Port1 == <<"1", "0", "0", "0">>
Port2 == <<"2", "0", "0", "0">>
Port6 == <<"9", "9", "9", "9">>
Addr4(ip, port) == ip \o <<":">> \o port
Addr6(ip, port) == <<"[">> \o ip \o <<"]", ":">> \o port

Subver2000 == DiviCore \o <<"2", ".", "0", ".", "0", ".", "0">>
Subver3100 == DiviCore \o <<"3", ".", "1", ".", "0", ".", "0">>

PeerA == [subver |-> MinSubver, startingheight |-> 995, addr |-> Addr4(Ip1, Port1)]
PeerB == [subver |-> Subver2000, startingheight |-> 999, addr |-> Addr4(Ip2, Port2)]
PeerC == [subver |-> Subver3100, startingheight |-> 1000, addr |-> Addr6(Ip6, Port6)]
PeerD == [subver |-> Subver3100, startingheight |-> 2000, addr |-> Addr4(Ip2, Port2)]
PeerE == [subver |-> MinSubver, startingheight |-> 1500, addr |-> Addr6(Ip6, Port6)]
\* the peers the node is connected to, in the order getpeerinfo lists them
NodePeers == <<PeerE, PeerB, PeerC, PeerD, PeerA>>

----------------------------------------------------------------------------
(* State.                                                                  *)

MaxReq == 2
Requests == 1..MaxReq

NoExchange == [ep |-> "none"]
EmptyCache == [data |-> JNull, timestamp |-> JNull]
NewRequest == [pc |-> "new"]

Init ==
    /\ http = NoExchange
    /\ clock = 0
    /\ cache = EmptyCache
    /\ req = [r \in Requests |-> NewRequest]
    /\ running = 0

----------------------------------------------------------------------------
(* SpecRpc: one request to a non-cached endpoint, handled from arrival to  *)
(* response.  These handlers share no state, so each is one step.          *)

Exchange(ep, args, outcome, did) ==
    [ep |-> ep, args |-> args, outcome |-> outcome, calls |-> did.calls,
     status |-> Respond(did.res).status, body |-> Respond(did.res).body]

\* the handler made no upstream call: no outcome was drawn
NoCall == [kind |-> "nocall"]
OutcomeUsed(outcome, did) == IF did.calls = << >> THEN NoCall ELSE outcome

Handle(ep, args, outcome, did) ==
    /\ http' = Exchange(ep, args, OutcomeUsed(outcome, did), did)
    /\ UNCHANGED <<clock, cache, req, running>>

Ping == Handle("ping", << >>, NoCall, ping)

PlainEndpoint ==
    \E ep \in PlainEndpoints : \E args \in PlainArgs(ep) : \E outcome \in Outcomes :
        Handle(ep, args, outcome, plain_endpoint(ep, args, outcome, clock))

GetBlockHash ==
    \E block \in Blocks : \E outcome \in Outcomes :
        Handle("blockhash", <<JChars(block)>>, outcome,
               get_block_hash(block, outcome, clock))

GetBlock ==
    \E hash \in Hashes : \E outcome \in Outcomes :
        Handle("block", <<JChars(hash)>>, outcome, get_block(hash, outcome, clock))

SendRawTransaction ==
    \E hexstring \in {JStr("0100")} : \E outcome \in Outcomes :
        Handle("sendrawtransaction", <<hexstring>>, outcome,
               send_raw_transaction(hexstring, outcome, clock))

GetLottery ==
    \E blockheight \in {JNull, JInt(0), JInt(5)} : \E outcome \in Outcomes :
        Handle("getlottery", <<blockheight>>, outcome,
               get_lottery(blockheight, outcome, clock))

NextRpc ==
    \/ Ping
    \/ PlainEndpoint
    \/ GetBlockHash
    \/ GetBlock
    \/ SendRawTransaction
    \/ GetLottery

SpecRpc == Init /\ [][NextRpc]_vars

----------------------------------------------------------------------------
(* Spec: /getpeers.  get_peers is an "async def" whose body holds no await: *)
(* rpc.get_block_count() is a blocking call of requests.post made on the    *)
(* event loop's thread.  A handler that has started therefore keeps the     *)
(* event loop until it returns, and the other requests wait as queued       *)
(* tasks.  The handler is split at its upstream call, during which the      *)
(* clock moves on.                                                          *)
(*                                                                          *)
(* Line 231 calls rpc.get_peer_info(), and class RpcClient defines no such  *)
(* method (nor __getattr__): the attribute lookup raises AttributeError,    *)
(* which the handler's "except Exception" turns into its error body.  No    *)
(* getpeerinfo request is sent, and lines 232-267 (the filter, the cache    *)
(* store, the successful return) run only if that lookup were to succeed.   *)

MaxClock == 6
\* timedelta(hours = 5), the clock counting hours
CACHE_DURATION == 5

\* whether the handler gives the event loop up while an upstream call is pending
AwaitsUpstream == FALSE

\* line 221: cache["data"] and cache["timestamp"] and now - cache["timestamp"] < CACHE_DURATION
Servable(c, now) ==
    Truthy(c.data) /\ Truthy(c.timestamp) /\ now - c.timestamp.at < CACHE_DURATION

\* lines 264-265
CacheStore(result, now) == [data |-> result, timestamp |-> DateTime(now)]

\* lines 256-261
PeersResult(filtered_peers, now) ==
    JObj([result |-> GroupList(filtered_peers), error |-> JNull, id |-> JInt(1),
          timestamp_utc |-> JIso(now)])

\* line 270: {"error": str(e), "timestamp": now.isoformat()}
PeersError(msg, now) == JObj([error |-> JStr(msg), timestamp |-> JIso(now)])

\* str(n) of a non-negative int
RECURSIVE IntText(_)
IntText(n) ==
    LET digit == <<"0", "1", "2", "3", "4", "5", "6", "7", "8", "9">>[(n % 10) + 1]
    IN IF n < 10 THEN digit ELSE IntText(n \div 10) \o digit

\* str(e) of the exception the try block caught; HTTPException.__str__ gives
\* "<status_code>: <detail>"
ExceptionText(exc) ==
    IF exc.cls = "HTTPException"
    THEN IntText(exc.status_code) \o ": " \o exc.detail
    ELSE exc.msg

\* the methods class RpcClient defines
RpcClientMethods ==
    {"call", "get_address_balance", "get_address_deltas", "get_address_txids",
     "get_address_utxos", "get_block_count", "get_block", "get_block_hash",
     "get_raw_transaction", "send_raw_transaction", "decode_raw_transaction",
     "get_connection_count", "get_info", "get_raw_mempool", "get_mempool_info",
     "get_lottery_block_winners", "ping"}

\* rpc.<name>: the bound method, or AttributeError
RpcAttribute(name) ==
    IF name \in RpcClientMethods THEN Return(JStr(name))
    ELSE Raise("AttributeError", "'RpcClient' object has no attribute '" \o name \o "'")

\* lines 237-253 for whatever peer_info holds once it passed "if not peer_info":
\* a list of peer records goes through the loop, a dict is iterated by its keys
\* (str has no .get), anything else is not iterable
FilterPeers(peer_info, block_count, include_ipv6) ==
    IF peer_info.t = "list"
    THEN FilterLoop(peer_info.items, 1, block_count, include_ipv6, << >>)
    ELSE IF peer_info.t \in {"dict", "str"}
    THEN Raise("AttributeError", "'str' object has no attribute 'get'")
    ELSE Raise("TypeError", "object is not iterable")

\* a JSON-RPC envelope, which is what a node answers a call with
Enveloped(v) == JObj([result |-> v, error |-> JNull, id |-> JInt(1)])

BlockCountOutcomes ==
    {Ok(JInt(2000)), Ok(JInt(0)), Ok(JNull), Ok(Enveloped(JInt(2000))),
     Fails("ConnectionError"), Fails("Timeout")}

GetBlockCountRequest == RpcRequest("getblockcount", << >>)

\* Lines 231-270 once rpc.get_block_count() has returned block_count: what the
\* handler returns and what it leaves in the cache.
PeersAfterBlockCount(block_count, include_ipv6, now, c) ==
    LET method == RpcAttribute("get_peer_info")
        \* what the call of line 231 gives, were there a method to call
        peer_info == IF method.raised THEN method ELSE Return(JList(<< >>))
        filtered == IF peer_info.raised THEN peer_info
                    ELSE IF ~Truthy(peer_info.value)
                    THEN HTTPException(500, "Unable to retrieve peer information.")
                    ELSE FilterPeers(peer_info.value, block_count, include_ipv6)
    IN IF filtered.raised
       THEN [body |-> PeersError(ExceptionText(filtered), now), cache |-> c]
       ELSE [body |-> PeersResult(filtered.value, now),
             cache |-> CacheStore(PeersResult(filtered.value, now), now)]

\* the handler of request r returns body
Finish(r, body, calls) ==
    /\ req' = [req EXCEPT ![r] = [@ EXCEPT !.pc = "done", !.body = body, !.calls = calls]]
    /\ running' = 0

\* the handler of request r is now inside an upstream call
Block(r, pc, fields) ==
    /\ req' = [req EXCEPT ![r] = [fields EXCEPT !.pc = pc]]
    /\ running' = IF AwaitsUpstream THEN 0 ELSE r

\* request r may run: it holds the event loop, or it awaits and the loop is free
MayResume(r) == running = r \/ (AwaitsUpstream /\ running = 0)

\* A request for /getpeers arrives and waits for the event loop.  Requests are
\* numbered in the order of their arrival, which is the order in which the event
\* loop starts their handlers.
Arrive(r) ==
    /\ req[r].pc = "new"
    /\ (r > 1 => req[r - 1].pc # "new")
    /\ \E include_ipv6 \in BOOLEAN :
          req' = [req EXCEPT ![r] = [pc |-> "queued", include_ipv6 |-> include_ipv6]]
    /\ UNCHANGED <<http, clock, cache, running>>

\* lines 217-226: the handler starts, reads the clock and checks the cache; on a
\* miss it sends getblockcount.
PeersCheck(r) ==
    /\ req[r].pc = "queued"
    /\ running = 0
    /\ (r > 1 => req[r - 1].pc \notin {"new", "queued"})
    /\ LET now == clock
           begun == [pc |-> "check", include_ipv6 |-> req[r].include_ipv6, now |-> now,
                     seen |-> cache, calls |-> << >>, body |-> JNull]
       IN IF Servable(cache, now)
          THEN /\ req' = [req EXCEPT ![r] = [begun EXCEPT !.pc = "done", !.body = cache.data]]
               /\ running' = 0
          ELSE Block(r, "blockcount", [begun EXCEPT !.calls = <<GetBlockCountRequest>>])
    /\ UNCHANGED <<http, clock, cache>>

\* lines 226-270: rpc.get_block_count() comes back and the handler runs to its end.
PeersBlockCount(r) ==
    /\ req[r].pc = "blockcount"
    /\ MayResume(r)
    /\ \E outcome \in BlockCountOutcomes :
        LET res == RpcClient_call(outcome)
            now == req[r].now
            rest == PeersAfterBlockCount(res.value, req[r].include_ipv6, now, cache)
        IN IF res.raised
           THEN /\ Finish(r, PeersError(ExceptionText(res), now), req[r].calls)
                /\ cache' = cache
           ELSE IF res.value = JNull
           THEN /\ Finish(r, PeersError(ExceptionText(
                               HTTPException(500, "Unable to retrieve block count.")),
                             now), req[r].calls)
                /\ cache' = cache
           ELSE /\ Finish(r, rest.body, req[r].calls)
                /\ cache' = rest.cache
    /\ UNCHANGED <<http, clock>>

\* An hour passes.
Tick ==
    /\ clock < MaxClock
    /\ clock' = clock + 1
    /\ UNCHANGED <<http, cache, req, running>>

Next ==
    \/ \E r \in Requests : Arrive(r)
    \/ \E r \in Requests : PeersCheck(r)
    \/ \E r \in Requests : PeersBlockCount(r)
    \/ Tick

Spec == Init /\ [][Next]_vars

\* What is sure to happen.  The event loop starts a queued handler once it is
\* free, and time passes.  The step that ends an upstream call is the node's:
\* requests.post is called without timeout= (rpc_client.py line 29), so requests
\* waits on the socket with no deadline and no step of the program ends the call
\* for a node that stays silent.  PeersBlockCount therefore carries no fairness.
SpecLive ==
    /\ Spec
    /\ WF_vars(\E r \in Requests : PeersCheck(r))
    /\ WF_vars(Tick)

----------------------------------------------------------------------------
(* Properties of the non-cached endpoints (SpecRpc).                       *)

WrapperEndpoints == PlainEndpoints \cup {"block", "blockhash", "sendrawtransaction"}
Handled == http.ep # "none"

\* the body holds a value other than null under key
Populated(body, key) == HasKey(body, key) /\ body.d[key] # JNull

\* C1: on every endpoint behind rpc_call_wrapper an upstream connection failure is
\* answered with status 503 and an upstream timeout with status 504, and neither
\* response carries a non-null result.
C1_TransportFailureStatus ==
    (Handled /\ http.ep \in WrapperEndpoints) =>
        /\ http.outcome.kind = "ConnectionError" =>
                http.status = 503 /\ ~Populated(http.body, "result")
        /\ http.outcome.kind = "Timeout" =>
                http.status = 504 /\ ~Populated(http.body, "result")

\* C2: in every response body of an enveloped endpoint exactly one of result and
\* error is non-null.
C2_ExactlyOneOfResultError ==
    (Handled /\ http.ep # "ping") =>
        (Populated(http.body, "result") <=> ~Populated(http.body, "error"))

\* error is null or an object holding a message string
ErrorShape(e) == e = JNull \/ (HasKey(e, "message") /\ e.d.message.t = "str")

\* C3: every response of every endpoint but /ping is an object with exactly the
\* keys result, error and timestamp_utc, error being null or {message: string}.
C3_EnvelopeKeys ==
    (Handled /\ http.ep # "ping") =>
        /\ http.body.t = "dict" /\ http.body # JEmptyObj
        /\ DOMAIN http.body.d = {"result", "error", "timestamp_utc"}
        /\ ErrorShape(http.body.d.error)

IsHex64(h) ==
    /\ Len(h) = 64
    /\ \A i \in 1..Len(h) : \E j \in 1..22 :
          h[i] = <<"0", "1", "2", "3", "4", "5", "6", "7", "8", "9", "a", "b", "c", "d",
                   "e", "f", "A", "B", "C", "D", "E", "F">>[j]

\* a block is numeric when it spells a non-negative integer: it has at least one
\* character and each is a decimal digit ("0".."9", or another script's, such as
\* ARABIC_THREE); SUPERSCRIPT_TWO is a digit to str.isdigit() and spells no number
DecimalDigits == {"0", "1", "2", "3", "4", "5", "6", "7", "8", "9", "ARABIC_THREE"}
NonNumeric(block) == Len(block) = 0 \/ \E i \in 1..Len(block) : block[i] \notin DecimalDigits

\* C6: /block/{hash} answers a hash that is not 64 hexadecimal characters with
\* status 400 and no upstream call, and sends getblock for a valid hash;
\* /blockhash/{block} answers a non-numeric block with 400 and no upstream call.
C6_ValidationBeforeUpstream ==
    /\ (Handled /\ http.ep = "block") =>
          IF IsHex64(http.args[1].chars)
          THEN http.calls = <<RpcRequest("getblock", <<http.args[1], JBool(TRUE)>>)>>
          ELSE http.status = 400 /\ http.calls = << >>
    /\ (Handled /\ http.ep = "blockhash" /\ NonNumeric(http.args[1].chars)) =>
          http.status = 400 /\ http.calls = << >>

\* the endpoints that answer a success through handle_rpc_response
NormalisedEndpoints == WrapperEndpoints \cup {"getlottery"}

\* C7: for a successful upstream payload p the response has error = null and
\* result = p, or p.result when p is a record with a top-level result field, the
\* inner value being taken as it is.
C7_NormaliseSuccess ==
    (Handled /\ http.ep \in NormalisedEndpoints /\ http.outcome.kind = "ok") =>
        LET p == http.outcome.payload IN
        /\ http.status = 200
        /\ http.body.d.error = JNull
        /\ http.body.d.result =
              IF p.t = "dict" /\ p # JEmptyObj /\ "result" \in DOMAIN p.d
              THEN p.d.result ELSE p

\* a payload wrapped twice came out unwrapped once: the result still has a result
C7_Witness ==
    /\ Handled /\ http.ep \in NormalisedEndpoints /\ http.outcome.kind = "ok"
    /\ HasKey(http.outcome.payload, "result")
    /\ HasKey(http.body.d.result, "result")

----------------------------------------------------------------------------
(* Properties of /getpeers and its cache (Spec, SpecLive).                 *)

Done(r) == req[r].pc = "done"
Recomputing(r) == req[r].pc = "blockcount"

\* upstream computations request r started
Computations(r) == IF req[r].calls = << >> THEN 0 ELSE 1

\* request r found no servable entry when it checked the cache
Missed(r) == Done(r) /\ ~Servable(req[r].seen, req[r].now)

\* the getblockcount call of request r failed, or gave no block count
BlockCountFailed(r) ==
    \/ \E o \in BlockCountOutcomes :
          /\ RpcClient_call(o).raised
          /\ req[r].body = PeersError(ExceptionText(RpcClient_call(o)), req[r].now)
    \/ req[r].body = PeersError(ExceptionText(
                              HTTPException(500, "Unable to retrieve block count.")),
                            req[r].now)

\* C4: any two calls within TTL of each other return identical payloads and
\* trigger exactly one upstream computation between them.
C4_AnyTwoCallsWithinTtl ==
    \A a, b \in Requests :
        (a < b /\ Done(a) /\ Done(b) /\ req[b].now - req[a].now < CACHE_DURATION) =>
            /\ req[a].body = req[b].body
            /\ Computations(a) + Computations(b) = 1

\* the heights the node answers getblockcount with
NodeHeights == {o.payload.n : o \in {x \in BlockCountOutcomes :
                                        x.kind = "ok" /\ x.payload.t = "int"}}

Bracketed(addr) == Len(addr) > 0 /\ addr[1] = "["

\* peer p is one the result is to hold, the height being h
Kept(p, h, include_ipv6) ==
    /\ ~StrLess(p.subver, MinSubver)
    /\ p.startingheight >= h - 1000
    /\ (Bracketed(p.addr) => include_ipv6)

\* the members of a set of indices in increasing order
RECURSIVE Ascending(_)
Ascending(S) ==
    IF S = {} THEN << >> ELSE <<Min(S)>> \o Ascending(S \ {Min(S)})

\* entry is the {ip, port} that addr spells
Spells(addr, entry) ==
    IF Bracketed(addr) THEN addr = Addr6(entry.d.ip.chars, entry.d.port.chars)
    ELSE addr = Addr4(entry.d.ip.chars, entry.d.port.chars)

\* first index of a node peer whose subver is core
FirstOf(core) == Min({i \in 1..Len(NodePeers) : JChars(NodePeers[i].subver) = core})

\* groups holds exactly the node peers of alive, each as its parsed (ip, port),
\* grouped by subver, in input order inside a group, the groups ordered by the
\* first occurrence of their subver in the input
GroupsAre(groups, alive) ==
    /\ \A k, l \in 1..Len(groups) : groups[k].d.core = groups[l].d.core => k = l
    /\ \A i \in alive : \E k \in 1..Len(groups) :
            groups[k].d.core = JChars(NodePeers[i].subver)
    /\ \A k \in 1..Len(groups) :
          LET idx == Ascending({i \in alive : JChars(NodePeers[i].subver) = groups[k].d.core})
              peers == groups[k].d.peers.items
          IN /\ Len(idx) > 0
             /\ Len(peers) = Len(idx)
             /\ \A j \in 1..Len(idx) : Spells(NodePeers[idx[j]].addr, peers[j])
    /\ \A k, l \in 1..Len(groups) :
          k < l => FirstOf(groups[k].d.core) < FirstOf(groups[l].d.core)

\* C8: the result get_peers computes holds exactly the node's peers with subver >=
\* "DIVI Core: 3.0.0.0" and startingheight >= h - 1000 (less the bracketed
\* addresses when include_ipv6 is false), each as its parsed (ip, port), grouped by
\* subver, groups ordered by first occurrence in the input, peers in input order.
\* Stated for the calls that computed (missed the cache) and whose getblockcount
\* gave a height h.
C8_GetPeersResultGroups ==
    \A r \in Requests : (Missed(r) /\ ~BlockCountFailed(r)) =>
        \E h \in NodeHeights :
            LET body == req[r].body
                alive == {i \in 1..Len(NodePeers) :
                            Kept(NodePeers[i], h, req[r].include_ipv6)}
            IN /\ HasKey(body, "result")
               /\ body.d.result.t = "list"
               /\ GroupsAre(body.d.result.items, alive)

\* C9: check-then-compute-then-store is one critical section: at most one request
\* is recomputing at any time, and a request that arrived while another was
\* recomputing starts no upstream computation of its own: once the other has
\* computed (its getblockcount answered) it is served without an upstream call,
\* as long as it starts within the TTL of the other.
C9_NoSecondComputation ==
    /\ [](Cardinality({r \in Requests : Recomputing(r)}) <= 1)
    /\ \A a, b \in Requests :
          []((Recomputing(a) /\ req[b].pc = "queued") =>
                []((Done(a) /\ ~BlockCountFailed(a) /\ Done(b)
                       /\ req[b].now - req[a].now < CACHE_DURATION)
                    => req[b].calls = << >>))

\* C11: every upstream call has a deadline, so a get_peers request that is
\* recomputing (inside its upstream call) eventually returns, with a success or a
\* failure, even when the upstream never responds.
C11_RecomputeReturns ==
    \A r \in Requests : Recomputing(r) ~> Done(r)

GetPeerInfoRequest == RpcRequest("getpeerinfo", << >>)

\* C12: a get_peers call that finds no servable entry runs the computation
\* (getblockcount, getpeerinfo, filter), returns its result, and leaves it in the
\* cache stamped with the now it took at its start (unless a later computation
\* has replaced it since).  Stated for the calls whose getblockcount succeeded.
C12_MissComputesStoresReturns ==
    \A r \in Requests : (Missed(r) /\ ~BlockCountFailed(r)) =>
        /\ req[r].calls = <<GetBlockCountRequest, GetPeerInfoRequest>>
        /\ Populated(req[r].body, "result")
        /\ cache.timestamp # JNull
        /\ cache.timestamp.at >= req[r].now
        /\ (cache.timestamp.at = req[r].now => cache.data = req[r].body)

====
